---- MODULE Spec2Model ----
(***************************************************************************)
(* Gradient quad layer and pipeline of wgpu/src/quad/gradient.rs.          *)
(*                                                                         *)
(* Layer owns two instance buffers (linear_instances, radial_instances)    *)
(* and an instance count; Layer::prepare partitions the frame's gradients  *)
(* by kind and uploads each sub-sequence.  Pipeline owns two render        *)
(* pipelines; Pipeline::render binds one of them with the matching         *)
(* instance buffer and records one instanced draw.                         *)
(*                                                                         *)
(* crate::Buffer (resize / write) is not part of gradient.rs; it is        *)
(* modelled from the design text: a grow-only resize that never            *)
(* under-allocates and may fail fatally, and a write at an offset.         *)
(***************************************************************************)
EXTENDS Integers, Sequences, FiniteSets, TLC

VARIABLES
    target_arch,   \* build target: the cfg(target_arch = "wasm32") switch
    pipeline,      \* the Pipeline object and its two render pipelines
    layer,         \* the Layer: both buffers and instance_count
    instances,     \* argument of the last Layer::prepare call
    locals,        \* prepare's two local Vecs at the end of the last call
    calls,         \* Buffer operations issued by the last prepare call
    outcome,       \* how the last prepare call ended: "ok" or "fatal"
    pass,          \* commands recorded by the last Pipeline::render call
    render_args,   \* arguments of the last Pipeline::render call
    op             \* the operation that produced the current state

vars == <<target_arch, pipeline, layer, instances, locals, calls, outcome,
          pass, render_args, op>>

----------------------------------------------------------------------------
(* Bounds                                                                  *)

\* Longest instance list handed to prepare.
MaxInstances == 2

\* quad::INITIAL_INSTANCES, the capacity both buffers are created with.
\* Its value is set in quad.rs; the model uses a small stand-in so that a
\* sub-sequence can exceed it.
INITIAL_INSTANCES == 1

----------------------------------------------------------------------------
(* Data                                                                    *)

GradientRenderStrategy == {"Linear", "Radial"}

TargetArchs == {"wasm32", "native"}

\* The gradients a frame may contain: gradient::Packed is the tagged
\* payload, quad the shared geometry.
Gradients ==
    { [gradient |-> [tag |-> "Linear", packed |-> "lin_a"], quad |-> "q1"],
      [gradient |-> [tag |-> "Linear", packed |-> "lin_b"], quad |-> "q2"],
      [gradient |-> [tag |-> "Radial", packed |-> "rad_a"], quad |-> "q1"],
      [gradient |-> [tag |-> "Radial", packed |-> "rad_b"], quad |-> "q2"] }

\* The flattened per-kind records: the payload without its tag.
LinearGradient(g) == [gradient |-> g.gradient.packed, quad |-> g.quad]

RadialGradient(g) == [gradient |-> g.gradient.packed, quad |-> g.quad]

\* A record of a freshly created device buffer.
Zeroed == [gradient |-> "zeroed", quad |-> "zeroed"]

RECURSIVE SeqsUpTo(_, _)
SeqsUpTo(S, n) ==
    IF n = 0 THEN { <<>> }
    ELSE LET shorter == SeqsUpTo(S, n - 1)
         IN shorter \cup { Append(s, x) : s \in { t \in shorter : Len(t) = n - 1 }, x \in S }

InstanceLists == SeqsUpTo(Gradients, MaxInstances)

\* usize values as hi * 2^32 + lo; a u32 is the lo part alone.
UsizeValues ==
    { [hi |-> 0, lo |-> 0], [hi |-> 0, lo |-> 1], [hi |-> 0, lo |-> 9],
      [hi |-> 1, lo |-> 1] }

\* Instance lists of the frames of the render specification.
RenderFrames ==
    { <<>>,
      << [gradient |-> [tag |-> "Linear", packed |-> "lin_a"], quad |-> "q1"] >>,
      << [gradient |-> [tag |-> "Radial", packed |-> "rad_a"], quad |-> "q1"],
         [gradient |-> [tag |-> "Linear", packed |-> "lin_b"], quad |-> "q2"] >> }

Ranges == [start : UsizeValues, end : UsizeValues]

AsU32(u) == u.lo

\* render_args before the first render call of a frame.
NoRender ==
    [strategy |-> "none",
     range |-> [start |-> [hi |-> 0, lo |-> 0], end |-> [hi |-> 0, lo |-> 0]]]

----------------------------------------------------------------------------
(* crate::Buffer                                                           *)

\* Buffer::new: a device buffer of the given capacity.
BufferNew(capacity) ==
    [capacity |-> capacity, contents |-> [i \in 1..capacity |-> Zeroed]]

\* Buffer::resize(device, new_count): grows the buffer when new_count
\* exceeds its capacity, never shrinks it.  A growth allocates a new device
\* buffer of new_count records and fails when the device cannot allocate
\* (alloc_ok = FALSE).
BufferResize(buffer, new_count, alloc_ok) ==
    IF new_count > buffer.capacity
    THEN IF alloc_ok
         THEN [buffer |-> BufferNew(new_count), result |-> "grown"]
         ELSE [buffer |-> buffer, result |-> "failed"]
    ELSE [buffer |-> buffer, result |-> "unchanged"]

OverflowOutcomes == {"rejected", "truncated"}

\* Buffer::write(device, encoder, belt, offset, contents): copies the
\* records into the buffer from offset on.  A transfer that does not fit the
\* capacity is outside the buffer's contract: the device either rejects it
\* or cuts it at the end of the buffer.
BufferWrite(buffer, offset, data, overflow) ==
    LET fits == offset + Len(data) <= buffer.capacity
        last == IF fits \/ overflow = "truncated"
                THEN offset + Len(data) ELSE offset
    IN [buffer EXCEPT !.contents =
           [i \in 1..buffer.capacity |->
               IF i > offset /\ i <= last
               THEN data[i - offset] ELSE buffer.contents[i]]]

\* One entry of the log of Buffer operations of a prepare call.
ResizeCall(step, name, buffer, new_count, result) ==
    [step |-> step, op |-> "resize", buffer |-> name, count |-> new_count,
     offset |-> 0, data |-> <<>>, capacity |-> buffer.capacity,
     result |-> result]

WriteCall(step, name, buffer, offset, data) ==
    [step |-> step, op |-> "write", buffer |-> name, count |-> Len(data),
     offset |-> offset, data |-> data, capacity |-> buffer.capacity,
     result |-> "issued"]

----------------------------------------------------------------------------
(* Layer                                                                   *)

\* Layer::new
LayerNew ==
    [linear_instances |-> BufferNew(INITIAL_INSTANCES),
     radial_instances |-> BufferNew(INITIAL_INSTANCES),
     instance_count   |-> 0]

\* instances.iter().filter_map(Packed::Linear => LinearGradient).collect()
RECURSIVE FilterMapLinear(_)
FilterMapLinear(list) ==
    IF list = <<>> THEN <<>>
    ELSE LET rest == FilterMapLinear(Tail(list))
         IN IF Head(list).gradient.tag = "Linear"
            THEN <<LinearGradient(Head(list))>> \o rest
            ELSE rest

\* Faulty variant: collects the Radial records in reverse order.
RECURSIVE FilterMapRadialReversed(_)
FilterMapRadialReversed(list) ==
    IF list = <<>> THEN <<>>
    ELSE LET rest == FilterMapRadialReversed(Tail(list))
         IN IF Head(list).gradient.tag = "Radial"
            THEN rest \o <<RadialGradient(Head(list))>>
            ELSE rest

\* instances.iter().filter_map(Packed::Radial => RadialGradient).collect()
RECURSIVE FilterMapRadial(_)
FilterMapRadial(list) ==
    IF list = <<>> THEN <<>>
    ELSE LET rest == FilterMapRadial(Tail(list))
         IN IF Head(list).gradient.tag = "Radial"
            THEN <<RadialGradient(Head(list))>> \o rest
            ELSE rest

\* State threaded through the body of prepare.
Running(l) == [layer |-> l, calls |-> <<>>, outcome |-> "ok"]

\* Faulty variant: no is_empty() guard, the step runs for every frame.
LinearStepUnguarded(st, linear, alloc_ok, overflow) ==
    LET r == BufferResize(st.layer.linear_instances, Len(linear), alloc_ok)
        c1 == Append(st.calls,
                ResizeCall("linear", "linear_instances",
                           st.layer.linear_instances, Len(linear), r.result))
    IN IF r.result = "failed"
       THEN [st EXCEPT !.calls = c1, !.outcome = "fatal"]
       ELSE [layer |-> [st.layer EXCEPT !.linear_instances =
                          BufferWrite(r.buffer, 0, linear, overflow)],
             calls |-> Append(c1,
                          WriteCall("linear", "linear_instances",
                                    r.buffer, 0, linear)),
             outcome |-> "ok"]

\* Faulty variant: a failed growth is ignored and the transfer goes ahead.
LinearStepSwallowsFailure(st, linear, alloc_ok, overflow) ==
    IF linear = <<>> THEN st
    ELSE LET r == BufferResize(st.layer.linear_instances, Len(linear),
                               alloc_ok)
             c1 == Append(st.calls,
                     ResizeCall("linear", "linear_instances",
                                st.layer.linear_instances, Len(linear),
                                r.result))
         IN [layer |-> [st.layer EXCEPT !.linear_instances =
                          BufferWrite(r.buffer, 0, linear, "truncated")],
             calls |-> Append(c1,
                          WriteCall("linear", "linear_instances",
                                    r.buffer, 0, linear)),
             outcome |-> "ok"]

\* if !linear_instances.is_empty() { resize linear; write linear }
LinearStep(st, linear, alloc_ok, overflow) ==
    IF linear = <<>> THEN st
    ELSE LET r == BufferResize(st.layer.linear_instances, Len(linear),
                               alloc_ok)
             c1 == Append(st.calls,
                     ResizeCall("linear", "linear_instances",
                                st.layer.linear_instances, Len(linear),
                                r.result))
         IN IF r.result = "failed"
            THEN [st EXCEPT !.calls = c1, !.outcome = "fatal"]
            ELSE [layer |-> [st.layer EXCEPT !.linear_instances =
                               BufferWrite(r.buffer, 0, linear, overflow)],
                  calls |-> Append(c1,
                               WriteCall("linear", "linear_instances",
                                         r.buffer, 0, linear)),
                  outcome |-> "ok"]

\* if !radial_instances.is_empty() { resize LINEAR to linear.len();
\*                                   write radial }
RadialStep(st, linear, radial, alloc_ok, overflow) ==
    IF radial = <<>> THEN st
    ELSE LET r == BufferResize(st.layer.linear_instances, Len(linear),
                               alloc_ok)
             c1 == Append(st.calls,
                     ResizeCall("radial", "linear_instances",
                                st.layer.linear_instances, Len(linear),
                                r.result))
         IN IF r.result = "failed"
            THEN [st EXCEPT !.calls = c1, !.outcome = "fatal"]
            ELSE [layer |-> [st.layer EXCEPT
                               !.linear_instances = r.buffer,
                               !.radial_instances =
                                   BufferWrite(st.layer.radial_instances, 0,
                                               radial, overflow)],
                  calls |-> Append(c1,
                               WriteCall("radial", "radial_instances",
                                         st.layer.radial_instances, 0,
                                         radial)),
                  outcome |-> "ok"]

\* Faulty variant: counts the Linear records only.
InstanceCountLinearOnly(list) == Len(FilterMapLinear(list))

\* self.instance_count = instances.len()
InstanceCount(list) == Len(list)

\* The body of Layer::prepare: both steps in program order, the second and
\* the count update only when nothing before them failed.
PrepareBody(l, list, alloc_ok, overflow) ==
    LET linear == FilterMapLinear(list)
        radial == FilterMapRadial(list)
        s1 == LinearStep(Running(l), linear, alloc_ok, overflow)
        s2 == IF s1.outcome = "fatal" THEN s1
              ELSE RadialStep(s1, linear, radial, alloc_ok, overflow)
    IN IF s2.outcome = "fatal" THEN s2
       ELSE [s2 EXCEPT !.layer.instance_count = InstanceCount(list)]

\* What the device may answer during a prepare call: an allocation can fail
\* only when a buffer has to grow, a transfer can overflow only when a
\* sub-sequence is longer than the buffer it goes to.
AllocOutcomes(l, list) ==
    IF Len(FilterMapLinear(list)) > l.linear_instances.capacity
    THEN BOOLEAN ELSE {TRUE}

WriteOutcomes(l, list) ==
    IF Len(FilterMapRadial(list)) > l.radial_instances.capacity
    THEN OverflowOutcomes ELSE {"rejected"}

\* Layer::prepare(device, encoder, belt, instances)
Prepare(list) ==
    \E alloc_ok \in AllocOutcomes(layer, list),
       overflow \in WriteOutcomes(layer, list) :
        LET end == PrepareBody(layer, list, alloc_ok, overflow)
        IN /\ layer' = end.layer
           /\ calls' = end.calls
           /\ outcome' = end.outcome
           /\ instances' = list
           /\ locals' = [linear_instances |-> FilterMapLinear(list),
                         radial_instances |-> FilterMapRadial(list)]
           /\ pass' = <<>>
           /\ render_args' = NoRender
           /\ op' = "prepare"
           /\ UNCHANGED <<target_arch, pipeline>>

----------------------------------------------------------------------------
(* Pipeline                                                                *)

\* Byte size of a wgpu::VertexFormat.
FormatSize(format) ==
    CASE format = "Uint32x4"  -> 16
      [] format = "Float32x4" -> 16
      [] format = "Float32"   -> 4
      [] format = "Uint32"    -> 4

\* The formats given to wgpu::vertex_attr_array!, locations 0..10.
AttributeFormats ==
    << "Uint32x4", "Uint32x4", "Uint32x4", "Uint32x4", "Uint32x4",
       "Float32x4", "Float32x4", "Float32x4", "Float32x4",
       "Float32", "Uint32" >>

RECURSIVE SumSizes(_)
SumSizes(formats) ==
    IF formats = <<>> THEN 0
    ELSE FormatSize(Head(formats)) + SumSizes(Tail(formats))

\* wgpu::vertex_attr_array!: location i-1 for the i-th format, each offset
\* the sum of the sizes before it.
VertexAttrArray(formats) ==
    [i \in 1..Len(formats) |->
        [shader_location |-> i - 1,
         format |-> formats[i],
         offset |-> SumSizes(SubSeq(formats, 1, i - 1))]]

\* size_of of the packed payloads and of Quad: plain-old-data records of
\* 32-bit fields, in the order the shader reads them.
SizeOfLinearPacked == SumSizes(SubSeq(AttributeFormats, 1, 6))

SizeOfRadialPacked == SumSizes(SubSeq(AttributeFormats, 1, 6))

SizeOfQuad == SumSizes(SubSeq(AttributeFormats, 7, 11))

\* size_of::<LinearGradient>() and size_of::<RadialGradient>(): repr(C)
\* records of a payload and a Quad, without padding (they are Pod).
SizeOfLinearGradient == SizeOfLinearPacked + SizeOfQuad

SizeOfRadialGradient == SizeOfRadialPacked + SizeOfQuad

\* Discriminant widths the compiler may choose for gradient::Packed.
TagSizes == {1, 2, 4}

AlignUp(n, a) == ((n + a - 1) \div a) * a

Max(a, b) == IF a >= b THEN a ELSE b

\* size_of::<Gradient>(): gradient::Packed is an enum over the two payloads,
\* which have no spare bit pattern, so it carries a discriminant in front of
\* the 4-byte aligned payload.
SizeOfGradient(tag_size) ==
    AlignUp(AlignUp(tag_size, 4)
            + Max(SizeOfLinearPacked, SizeOfRadialPacked)
            + SizeOfQuad, 4)

\* array_stride of the vertex buffer layout
ArrayStride(tag_size) == SizeOfGradient(tag_size)

\* Pipeline::create_gradient_pipeline
CreateGradientPipeline(gradient_type, gradient_shader, tag_size) ==
    [label |-> gradient_type,
     shader |-> << "quad.wgsl", "vertex.wgsl", gradient_shader,
                   "color.wgsl", "color/linear_rgb.wgsl" >>,
     vertex_entry_point |-> "gradient_vs_main",
     fragment_entry_point |-> "gradient_fs_main",
     buffers |-> << [array_stride |-> ArrayStride(tag_size),
                     step_mode |-> "Instance",
                     attributes |-> VertexAttrArray(AttributeFormats)] >>,
     topology |-> "TriangleList",
     front_face |-> "Cw",
     depth_stencil |-> "None",
     multisample_count |-> 1]

Uninitialized == [state |-> "uninitialized", pipelines |-> <<>>]

\* Pipeline::new: both pipelines on native targets, an empty Pipeline on
\* wasm32.
PipelineNew(arch, tag_size) ==
    IF arch = "wasm32"
    THEN [state |-> "ready", pipelines |-> <<>>]
    ELSE [state |-> "ready",
          pipelines |->
            << CreateGradientPipeline("linear", "gradient_linear.wgsl",
                                      tag_size),
               CreateGradientPipeline("radial", "gradient_radial.wgsl",
                                      tag_size) >>]

\* The two fields of a native Pipeline.
LinearGradientPipeline(p) == p.pipelines[1]

RadialGradientPipeline(p) == p.pipelines[2]

New ==
    /\ pipeline.state = "uninitialized"
    /\ \E tag_size \in TagSizes :
          pipeline' = PipelineNew(target_arch, tag_size)
    /\ op' = "new"
    /\ UNCHANGED <<target_arch, layer, instances, locals, calls, outcome,
                   pass, render_args>>

\* A command recorded into the render pass.
Command(cmd, slot, object, vertices, range) ==
    [cmd |-> cmd, slot |-> slot, object |-> object, vertices |-> vertices,
     instances |-> range]

\* Faulty variant: the two arms of the match are swapped.
SelectByStrategySwapped(strategy) ==
    IF strategy = "Linear"
    THEN [pipeline |-> "radial_gradient_pipeline",
          buffer |-> "radial_instances"]
    ELSE [pipeline |-> "linear_gradient_pipeline",
          buffer |-> "linear_instances"]

\* match strategy { Linear => ..., Radial => ... }: the pipeline and the
\* instance buffer bound for a strategy.
SelectByStrategy(strategy) ==
    IF strategy = "Linear"
    THEN [pipeline |-> "linear_gradient_pipeline",
          buffer |-> "linear_instances"]
    ELSE [pipeline |-> "radial_gradient_pipeline",
          buffer |-> "radial_instances"]

\* Faulty variant: draws the instances from 0 instead of range.start.
DrawCommandFromZero(range) ==
    Command("draw", 0, "none", <<0, 6>>, <<0, AsU32(range.end)>>)

\* render_pass.draw(0..6, range.start as u32..range.end as u32)
DrawCommand(range) ==
    Command("draw", 0, "none", <<0, 6>>,
            <<AsU32(range.start), AsU32(range.end)>>)

\* The commands of one render call; none on wasm32, where the body is
\* compiled out.
RenderCommands(arch, strategy, range) ==
    IF arch = "wasm32" THEN <<>>
    ELSE LET sel == SelectByStrategy(strategy)
         IN << Command("set_pipeline", 0, sel.pipeline, <<0, 0>>, <<0, 0>>),
               Command("set_vertex_buffer", 0, sel.buffer, <<0, 0>>, <<0, 0>>),
               Command("set_bind_group", 0, "constants", <<0, 0>>, <<0, 0>>),
               DrawCommand(range) >>

\* Faulty variant: render clears the layer's instance count.
RenderResetsCount(strategy, range) ==
    /\ pipeline.state = "ready"
    /\ pass' = RenderCommands(target_arch, strategy, range)
    /\ render_args' = [strategy |-> strategy, range |-> range]
    /\ op' = "render"
    /\ layer' = [layer EXCEPT !.instance_count = 0]
    /\ UNCHANGED <<target_arch, pipeline, instances, locals, calls, outcome>>

\* Pipeline::render(render_pass, constants, layer, range, strategy)
Render(strategy, range) ==
    /\ pipeline.state = "ready"
    /\ pass' = RenderCommands(target_arch, strategy, range)
    /\ render_args' = [strategy |-> strategy, range |-> range]
    /\ op' = "render"
    /\ UNCHANGED <<target_arch, pipeline, layer, instances, locals, calls,
                   outcome>>

----------------------------------------------------------------------------
(* Specification                                                           *)

Init ==
    /\ target_arch \in TargetArchs
    /\ pipeline = Uninitialized
    /\ layer = LayerNew
    /\ instances = <<>>
    /\ locals = [linear_instances |-> <<>>, radial_instances |-> <<>>]
    /\ calls = <<>>
    /\ outcome = "ok"
    /\ pass = <<>>
    /\ render_args = NoRender
    /\ op = "layer_new"

PrepareAny == \E list \in InstanceLists : Prepare(list)

RenderAny == \E strategy \in GradientRenderStrategy, range \in Ranges :
                 Render(strategy, range)

PrepareFrame == \E list \in RenderFrames : Prepare(list)

\* Frames of the layer: any sequence of prepare calls.
Next == PrepareAny

Spec == Init /\ [][Next]_vars

\* Construction of the pipeline, frames and draws in any order.
NextRender == New \/ PrepareFrame \/ RenderAny

SpecRender == Init /\ [][NextRender]_vars

----------------------------------------------------------------------------
(* Properties                                                              *)

IsLinear(g) == g.gradient.tag = "Linear"

IsRadial(g) == g.gradient.tag = "Radial"

\* The flattened records of a list of gradients, position by position.
Flattened(list) ==
    [i \in 1..Len(list) |->
        [gradient |-> list[i].gradient.packed, quad |-> list[i].quad]]

\* The stable partition of the last input list.
LinearOf(list) == Flattened(SelectSeq(list, IsLinear))

RadialOf(list) == Flattened(SelectSeq(list, IsRadial))

\* The transfers the last prepare call issued into a buffer.
WritesTo(log, name) ==
    { i \in DOMAIN log : log[i].op = "write" /\ log[i].buffer = name }

\* The records written into one buffer are exactly `expected`, from index 0:
\* no transfer for an empty sub-sequence, one transfer at offset 0 otherwise.
WrittenExactly(log, name, expected) ==
    IF expected = <<>> THEN WritesTo(log, name) = {}
    ELSE /\ Cardinality(WritesTo(log, name)) = 1
         /\ \A i \in WritesTo(log, name) :
               log[i].offset = 0 /\ log[i].data = expected

C2_KindIndependence ==
    \A i \in DOMAIN calls :
        /\ calls[i].step = "linear" =>
              /\ calls[i].buffer = "linear_instances"
              /\ calls[i].count = Len(LinearOf(instances))
        /\ calls[i].step = "radial" =>
              /\ calls[i].buffer = "radial_instances"
              /\ calls[i].count = Len(RadialOf(instances))

\* C3: over any sequence of prepare calls neither buffer's capacity
\* decreases, and every transfer of n records goes into a buffer whose
\* capacity is at least n.
C3_NoUnderAllocation ==
    [][ /\ layer'.linear_instances.capacity >= layer.linear_instances.capacity
        /\ layer'.radial_instances.capacity >= layer.radial_instances.capacity
        /\ \A i \in DOMAIN calls' :
              calls'[i].op = "write" => calls'[i].capacity >= calls'[i].count
      ]_vars

\* C4: a prepare call whose input has no instance of a kind leaves that
\* kind's buffer (capacity and contents) as it was and issues no transfer
\* into it; with an empty input neither buffer changes and no transfer is
\* issued.
C4_EmptyKindUntouched ==
    [][ op' = "prepare" =>
          /\ LinearOf(instances') = <<>> =>
                /\ layer'.linear_instances = layer.linear_instances
                /\ WritesTo(calls', "linear_instances") = {}
          /\ RadialOf(instances') = <<>> =>
                /\ layer'.radial_instances = layer.radial_instances
                /\ WritesTo(calls', "radial_instances") = {}
          /\ instances' = <<>> =>
                /\ layer'.linear_instances = layer.linear_instances
                /\ layer'.radial_instances = layer.radial_instances
                /\ \A i \in DOMAIN calls' : calls'[i].op # "write"
      ]_vars

\* A frame without Linear instances was prepared over a Linear buffer that
\* still holds an earlier frame's record.
C4_Witness ==
    /\ op = "prepare" /\ outcome = "ok"
    /\ LinearOf(instances) = <<>> /\ RadialOf(instances) # <<>>
    /\ layer.linear_instances.contents[1] # Zeroed

C10_InstanceCount ==
    /\ op = "layer_new" => layer.instance_count = 0
    /\ (op = "prepare" /\ outcome = "ok") =>
          /\ layer.instance_count = Len(instances)
          /\ Len(instances) = Len(locals.linear_instances)
                              + Len(locals.radial_instances)
          /\ Len(locals.linear_instances) = Len(SelectSeq(instances, IsLinear))
          /\ Len(locals.radial_instances) = Len(SelectSeq(instances, IsRadial))

\* A frame with both kinds was prepared.
C10_Witness ==
    /\ op = "prepare" /\ outcome = "ok"
    /\ locals.linear_instances # <<>> /\ locals.radial_instances # <<>>
    /\ layer.instance_count = MaxInstances

\* The commands of the last render call with a given name.
Recorded(cmd) == { i \in DOMAIN pass : pass[i].cmd = cmd }

\* The pipeline object behind a field name of Pipeline.
PipelineObject(name) ==
    IF name = "linear_gradient_pipeline"
    THEN LinearGradientPipeline(pipeline)
    ELSE RadialGradientPipeline(pipeline)

\* One pipeline and one vertex buffer (slot 0) are bound, both of the kind
\* the strategy asks for.
BindsRequestedKind ==
    LET kind == render_args.strategy
        wanted_pipeline == IF kind = "Linear" THEN "linear_gradient_pipeline"
                           ELSE "radial_gradient_pipeline"
        wanted_buffer == IF kind = "Linear" THEN "linear_instances"
                         ELSE "radial_instances"
        wanted_shader == IF kind = "Linear" THEN "gradient_linear.wgsl"
                         ELSE "gradient_radial.wgsl"
    IN /\ Cardinality(Recorded("set_pipeline")) = 1
       /\ Cardinality(Recorded("set_vertex_buffer")) = 1
       /\ \A i \in Recorded("set_pipeline") :
             /\ pass[i].object = wanted_pipeline
             /\ PipelineObject(pass[i].object).shader[3] = wanted_shader
       /\ \A i \in Recorded("set_vertex_buffer") :
             pass[i].object = wanted_buffer /\ pass[i].slot = 0

\* C5 as stated: every render call binds exactly one pipeline and one vertex
\* buffer (slot 0), both of the requested kind and never of the other.
C5_AsStated == op = "render" => BindsRequestedKind

\* C5: on targets other than wasm32 every render call binds exactly one
\* pipeline and one vertex buffer (slot 0), both of the requested kind and
\* never of the other; on wasm32 a render call records nothing.
C5_RenderBindsRequestedKind ==
    op = "render" =>
        IF target_arch = "wasm32" THEN pass = <<>> ELSE BindsRequestedKind

\* A Radial draw was recorded on a native target.
C5_Witness ==
    /\ op = "render" /\ target_arch = "native"
    /\ render_args.strategy = "Radial"
    /\ pass # <<>>

\* After the pipeline and the vertex buffer, the uniform group is bound at
\* slot 0 and one draw of vertices 0..6 follows, over the given instances.
BindsThenDraws(first, last) ==
    /\ Len(pass) = 4
    /\ pass[1].cmd = "set_pipeline" /\ pass[2].cmd = "set_vertex_buffer"
    /\ pass[3].cmd = "set_bind_group" /\ pass[3].slot = 0
    /\ pass[3].object = "constants"
    /\ pass[4].cmd = "draw" /\ pass[4].vertices = <<0, 6>>
    /\ pass[4].instances = <<first, last>>

\* C6 as stated: every render call binds the uniform group at slot 0 and
\* issues one draw of vertices 0..6 whose instance range is the caller's
\* [range.start, range.end).
C6_AsStated ==
    op = "render" =>
        /\ render_args.range.start.hi = 0 /\ render_args.range.end.hi = 0
        /\ BindsThenDraws(render_args.range.start.lo,
                          render_args.range.end.lo)

\* C6: on targets other than wasm32 every render call binds the uniform
\* group at slot 0 after the pipeline and the vertex buffer and then issues
\* one draw of vertices 0..6 whose instance range is the caller's bounds
\* modulo 2^32, whatever the written length of the buffer; on wasm32 a render
\* call records nothing.
C6_RenderDrawsRange ==
    op = "render" =>
        IF target_arch = "wasm32" THEN pass = <<>>
        ELSE BindsThenDraws(AsU32(render_args.range.start),
                            AsU32(render_args.range.end))

\* A draw whose range ends beyond the capacity of both buffers was recorded.
C6_Witness ==
    /\ op = "render" /\ target_arch = "native"
    /\ render_args.range.end.hi = 0
    /\ render_args.range.end.lo > layer.linear_instances.capacity
    /\ render_args.range.end.lo > layer.radial_instances.capacity
    /\ Recorded("draw") # {}

\* The vertex attributes the design lists, at consecutive byte offsets.
ExpectedAttributes ==
    << [shader_location |-> 0,  format |-> "Uint32x4",  offset |-> 0],
       [shader_location |-> 1,  format |-> "Uint32x4",  offset |-> 16],
       [shader_location |-> 2,  format |-> "Uint32x4",  offset |-> 32],
       [shader_location |-> 3,  format |-> "Uint32x4",  offset |-> 48],
       [shader_location |-> 4,  format |-> "Uint32x4",  offset |-> 64],
       [shader_location |-> 5,  format |-> "Float32x4", offset |-> 80],
       [shader_location |-> 6,  format |-> "Float32x4", offset |-> 96],
       [shader_location |-> 7,  format |-> "Float32x4", offset |-> 112],
       [shader_location |-> 8,  format |-> "Float32x4", offset |-> 128],
       [shader_location |-> 9,  format |-> "Float32",   offset |-> 144],
       [shader_location |-> 10, format |-> "Uint32",    offset |-> 148] >>

\* C8: both pipelines declare one instance-stepped vertex buffer with the 11
\* attributes of the design at consecutive offsets, and its stride is the
\* byte size of the record prepare uploads for that kind.
C8_VertexLayoutMatchesRecord ==
    (pipeline.state = "ready" /\ target_arch = "native") =>
        /\ \A p \in {LinearGradientPipeline(pipeline),
                     RadialGradientPipeline(pipeline)} :
              /\ Len(p.buffers) = 1
              /\ p.buffers[1].step_mode = "Instance"
              /\ p.buffers[1].attributes = ExpectedAttributes
        /\ LinearGradientPipeline(pipeline).buffers[1].array_stride
              = SizeOfLinearGradient
        /\ RadialGradientPipeline(pipeline).buffers[1].array_stride
              = SizeOfRadialGradient

\* C9: a render call changes neither the Pipeline nor the Layer; a Pipeline
\* that is ready stays ready; the Layer changes in prepare calls only.
C9_RenderIsReadOnly ==
    [][ /\ op' = "render" => (layer' = layer /\ pipeline' = pipeline)
        /\ pipeline.state = "ready" => pipeline' = pipeline
        /\ layer' # layer => op' = "prepare"
      ]_vars

\* A draw was recorded over a layer that holds a prepared frame.
C9_Witness ==
    /\ op = "render" /\ pipeline.state = "ready"
    /\ layer.instance_count > 0
    /\ layer.linear_instances.contents[1] # Zeroed

====
